---------------------------- MODULE Spec2Model ----------------------------
(***************************************************************************)
(* Model of ConfigParserWrapper (src/configparserwrapper.py): the query    *)
(* methods of the wrapper over an already parsed section/option store.     *)
(*                                                                         *)
(* Python str values are sequences of one-character strings, so that       *)
(* lower(), int(), float() and the os.path functions are computed          *)
(* character by character as the interpreter computes them.  Python        *)
(* values are records tagged with their Python type.                       *)
(*                                                                         *)
(* The parser behind the wrapper is modelled at the interface the wrapper  *)
(* uses (sections, has_section, has_option, get).  Left out of it: the     *)
(* DEFAULT section, and the interpolation of '%' by SafeConfigParser.get   *)
(* (no raw value of the model holds a '%').  logged holds the records the  *)
(* last call handed to the logger, ran the coercion routine it called.     *)
(***************************************************************************)
EXTENDS Integers, Sequences, FiniteSets, TLC

(***************************************************************************)
(* Bounds of the model.                                                    *)
(***************************************************************************)
\* longest raw value enumerated over Alphabet
MaxLen == 2
\* longest list handed to validate_sections / log_invalid_sections
MaxList == 3

(***************************************************************************)
(* Python values.                                                          *)
(***************************************************************************)
None == [type |-> "None"]
PyStr(s) == [type |-> "str", val |-> s]
PyInt(n) == [type |-> "int", val |-> n]
\* a float is kept exactly, as mant * 10^exp
PyFloat(m, e) == [type |-> "float", mant |-> m, exp |-> e]
PyBool(b) == [type |-> "bool", val |-> b]
PyList(l) == [type |-> "list", val |-> l]
PySet(s) == [type |-> "set", val |-> s]
\* an exception leaving the method
Raise(exc) == [type |-> "raise", exc |-> exc]

(***************************************************************************)
(* Characters and str methods.                                             *)
(***************************************************************************)
Digits == <<"0", "1", "2", "3", "4", "5", "6", "7", "8", "9">>
Upper == <<"A", "B", "C", "D", "E", "F", "G", "H", "I", "J", "K", "L", "M",
           "N", "O", "P", "Q", "R", "S", "T", "U", "V", "W", "X", "Y", "Z">>
Lower == <<"a", "b", "c", "d", "e", "f", "g", "h", "i", "j", "k", "l", "m",
           "n", "o", "p", "q", "r", "s", "t", "u", "v", "w", "x", "y", "z">>

IndexIn(seq, c) == CHOOSE i \in 1..Len(seq) : seq[i] = c
IsDigit(c) == \E i \in 1..Len(Digits) : Digits[i] = c
DigitVal(c) == IndexIn(Digits, c) - 1

\* str.lower(), one character
LowerChar(c) == IF \E i \in 1..Len(Upper) : Upper[i] = c THEN Lower[IndexIn(Upper, c)] ELSE c
\* str.lower()
StrLower(s) == [i \in 1..Len(s) |-> LowerChar(s[i])]

\* c in s
Contains(s, c) == \E i \in 1..Len(s) : s[i] = c
\* s.startswith(p)
StartsWith(s, p) == Len(s) >= Len(p) /\ SubSeq(s, 1, Len(p)) = p
\* s.endswith(c) for one character
EndsWithChar(s, c) == Len(s) > 0 /\ s[Len(s)] = c
\* s[i:] with a 0-based Python index
From(s, i) == SubSeq(s, i + 1, Len(s))
\* s[:i] with a 0-based Python index
Upto(s, i) == SubSeq(s, 1, i)

\* s.rfind(c): 0-based index of the last c, -1 if none
RFind(s, c) == IF Contains(s, c) THEN (CHOOSE i \in 1..Len(s) : s[i] = c /\ \A j \in (i+1)..Len(s) : s[j] # c) - 1 ELSE -1
\* s.find(c): 0-based index of the first c, -1 if none
Find(s, c) == IF Contains(s, c) THEN (CHOOSE i \in 1..Len(s) : s[i] = c /\ \A j \in 1..(i-1) : s[j] # c) - 1 ELSE -1

RECURSIVE RStripChars(_, _)
\* s.rstrip(chars)
RStripChars(s, chars) == IF Len(s) > 0 /\ s[Len(s)] \in chars THEN RStripChars(SubSeq(s, 1, Len(s) - 1), chars) ELSE s
RECURSIVE LStripChars(_, _)
\* s.lstrip(chars)
LStripChars(s, chars) == IF Len(s) > 0 /\ s[1] \in chars THEN LStripChars(Tail(s), chars) ELSE s
\* s.strip(chars)
StripChars(s, chars) == LStripChars(RStripChars(s, chars), chars)

RECURSIVE Split(_, _)
\* s.split(sep) for a one-character separator: always at least one field
Split(s, sep) == IF ~Contains(s, sep) THEN <<s>> ELSE <<Upto(s, Find(s, sep))>> \o Split(From(s, Find(s, sep) + 1), sep)

RECURSIVE JoinWith(_, _)
\* sep.join(parts)
JoinWith(parts, sep) == IF Len(parts) = 0 THEN <<>> ELSE IF Len(parts) = 1 THEN parts[1] ELSE parts[1] \o sep \o JoinWith(Tail(parts), sep)

RECURSIVE Repeat(_, _)
\* c * n
Repeat(c, n) == IF n <= 0 THEN <<>> ELSE <<c>> \o Repeat(c, n - 1)

(***************************************************************************)
(* int() and float() of a str (CPython 2.7).                               *)
(***************************************************************************)
Whitespace == {" ", "\t", "\n"}
AllDigits(s) == \A i \in 1..Len(s) : IsDigit(s[i])
HasSign(s) == Len(s) > 0 /\ s[1] \in {"+", "-"}
Unsigned(s) == IF HasSign(s) THEN Tail(s) ELSE s
SignOf(s) == IF Len(s) > 0 /\ s[1] = "-" THEN -1 ELSE 1

RECURSIVE DigitsValue(_)
\* the number written by a sequence of decimal digits
DigitsValue(s) == IF Len(s) = 0 THEN 0 ELSE 10 * DigitsValue(SubSeq(s, 1, Len(s) - 1)) + DigitVal(s[Len(s)])

\* int(s) succeeds: surrounding whitespace, one optional sign, then digits only
IntParses(s) == LET t == StripChars(s, Whitespace) IN Len(Unsigned(t)) > 0 /\ AllDigits(Unsigned(t))
\* int(s) when it succeeds
IntValue(s) == LET t == StripChars(s, Whitespace) IN SignOf(t) * DigitsValue(Unsigned(t))

\* position (1-based) of the exponent marker in s, 0 if none
ExpMark(s) == IF \E i \in 1..Len(s) : s[i] \in {"e", "E"} THEN CHOOSE i \in 1..Len(s) : s[i] \in {"e", "E"} /\ \A j \in 1..(i-1) : s[j] \notin {"e", "E"} ELSE 0
\* the part of an unsigned float literal before the exponent marker
MantPart(s) == IF ExpMark(s) = 0 THEN s ELSE SubSeq(s, 1, ExpMark(s) - 1)
\* the part after the exponent marker
ExpPart(s) == SubSeq(s, ExpMark(s) + 1, Len(s))
\* s without its decimal points
NoDots(s) == SelectSeq(s, LAMBDA c : c # ".")
\* digits [. digits] with at least one digit
MantOk(m) == Len(m) - Len(NoDots(m)) <= 1 /\ Len(NoDots(m)) > 0 /\ AllDigits(NoDots(m))
\* number of digits after the decimal point
FracDigits(m) == IF Contains(m, ".") THEN Len(m) - Find(m, ".") - 1 ELSE 0
\* float(s) succeeds on a decimal literal (inf and nan hold no '.', and
\* _string_to_digit hands float() only values that hold one)
FloatParses(s) == LET u == Unsigned(StripChars(s, Whitespace)) IN MantOk(MantPart(u)) /\ (ExpMark(u) # 0 => Len(Unsigned(ExpPart(u))) > 0 /\ AllDigits(Unsigned(ExpPart(u))))
\* float(s) when it succeeds
FloatValue(s) == LET t == StripChars(s, Whitespace) u == Unsigned(t) e == IF ExpMark(u) = 0 THEN 0 ELSE SignOf(ExpPart(u)) * DigitsValue(Unsigned(ExpPart(u))) IN PyFloat(SignOf(t) * DigitsValue(NoDots(MantPart(u))), e - FracDigits(MantPart(u)))

(***************************************************************************)
(* The file system and the process around the wrapper: the working         *)
(* directory, the home directory of the invoking user, and the regular     *)
(* files that exist.  No symbolic links; the directories of Files exist.   *)
(***************************************************************************)
Cwd == <<"/", "w">>
Home == <<"/", "h">>
Files == {<<"/", "b", "/", "t">>, <<"/", "w", "/", "7">>, <<"/", "b", "/", "l", "s">>}
\* the values os.environ holds for PATH: unset, empty, or two entries, the
\* second one quoted
EnvPaths == {None, PyStr(<<>>), PyStr(<<"/", "s", ":", "\"", "/", "b", "\"">>)}

(***************************************************************************)
(* posixpath (CPython 2.7).                                                *)
(***************************************************************************)
\* os.path.split(p)
PathSplit(p) == LET i == RFind(p, "/") + 1 head == Upto(p, i) IN [head |-> IF Len(head) > 0 /\ head # Repeat("/", Len(head)) THEN RStripChars(head, {"/"}) ELSE head, tail |-> From(p, i)]
\* os.path.join(a, b)
PathJoin(a, b) == IF StartsWith(b, <<"/">>) THEN b ELSE IF a = <<>> \/ EndsWithChar(a, "/") THEN a \o b ELSE a \o <<"/">> \o b
\* os.path.expanduser(path): only the invoking user is in the password database
ExpandUser(path) == IF ~StartsWith(path, <<"~">>) THEN path ELSE LET i == IF Find(path, "/") < 0 THEN Len(path) ELSE Find(path, "/") IN IF i # 1 THEN path ELSE LET r == RStripChars(Home, {"/"}) \o From(path, i) IN IF r = <<>> THEN <<"/">> ELSE r

RECURSIVE NormComps(_, _, _)
\* the loop of os.path.normpath over the components of the path
NormComps(comps, new_comps, initial_slashes) == IF Len(comps) = 0 THEN new_comps ELSE LET comp == Head(comps) IN IF comp = <<>> \/ comp = <<".">> THEN NormComps(Tail(comps), new_comps, initial_slashes) ELSE IF comp # <<".", ".">> \/ (initial_slashes = 0 /\ Len(new_comps) = 0) \/ (Len(new_comps) > 0 /\ new_comps[Len(new_comps)] = <<".", ".">>) THEN NormComps(Tail(comps), Append(new_comps, comp), initial_slashes) ELSE IF Len(new_comps) > 0 THEN NormComps(Tail(comps), SubSeq(new_comps, 1, Len(new_comps) - 1), initial_slashes) ELSE NormComps(Tail(comps), new_comps, initial_slashes)
\* os.path.normpath(path)
NormPath(path) == IF path = <<>> THEN <<".">> ELSE LET initial_slashes == IF ~StartsWith(path, <<"/">>) THEN 0 ELSE IF StartsWith(path, <<"/", "/">>) /\ ~StartsWith(path, <<"/", "/", "/">>) THEN 2 ELSE 1 r == Repeat("/", initial_slashes) \o JoinWith(NormComps(Split(path, "/"), <<>>, initial_slashes), <<"/">>) IN IF r = <<>> THEN <<".">> ELSE r
\* os.path.abspath(path)
AbsPath(path) == IF StartsWith(path, <<"/">>) THEN NormPath(path) ELSE NormPath(PathJoin(Cwd, path))
\* os.path.isfile(path)
IsFile(path) == path # <<>> /\ AbsPath(path) \in Files

(***************************************************************************)
(* The parsed store: SafeConfigParser seen through sections(),             *)
(* has_section(), has_option() and get().  A store is a record of the      *)
(* section names in stored order and, per section, its options.            *)
(***************************************************************************)
\* RawConfigParser.optionxform(option)
OptionXform(option) == StrLower(option)
\* SafeConfigParser.sections()
Sections(cfg) == cfg.sections
\* SafeConfigParser.has_section(section); section may be None
HasSection(cfg, section) == section.type = "str" /\ \E i \in 1..Len(cfg.sections) : cfg.sections[i] = section.val
\* SafeConfigParser.has_option(section, option) for a section name
HasOption(cfg, name, option) == (\E i \in 1..Len(cfg.sections) : cfg.sections[i] = name) /\ OptionXform(option) \in DOMAIN cfg.options[name]
\* SafeConfigParser.get(section, option) for an option the section has
ConfigGet(cfg, name, option) == cfg.options[name][OptionXform(option)]

(***************************************************************************)
(* The logger: one record per call of self._logger.error / .warning.       *)
(***************************************************************************)
LogEntry(level, msg, args) == [level |-> level, msg |-> msg, args |-> args]

(***************************************************************************)
(* ConfigParserWrapper.                                                    *)
(***************************************************************************)
\* ConfigParserWrapper._boolean_states
BooleanStates == [k \in {<<"y", "e", "s">>, <<"t", "r", "u", "e">>, <<"o", "n">>, <<"n", "o">>, <<"f", "a", "l", "s", "e">>, <<"o", "f", "f">>, <<"y">>, <<"t">>, <<"n">>, <<"f">>} |-> k \in {<<"y", "e", "s">>, <<"t", "r", "u", "e">>, <<"o", "n">>, <<"y">>, <<"t">>}]

\* a validate_sections that returns the list even when it is empty
ValidateSectionsNoLenTest(cfg, list_sections) == PyList(SelectSeq(list_sections, LAMBDA n : ~HasSection(cfg, PyStr(n))))

RECURSIVE InvalidSections(_, _)
\* validate_sections: the loop collecting the invalid names
InvalidSections(cfg, list_sections) ==
    IF Len(list_sections) = 0 THEN <<>>
    ELSE (IF ~HasSection(cfg, PyStr(Head(list_sections))) THEN <<Head(list_sections)>> ELSE <<>>)
         \o InvalidSections(cfg, Tail(list_sections))
\* validate_sections(list_sections): the value returned
ValidateSections(cfg, list_sections) ==
    LET invalid_sections == InvalidSections(cfg, list_sections)
    IN  IF Len(invalid_sections) > 0 THEN PyList(invalid_sections) ELSE None

\* log_invalid_sections(list_sections): the records logged
LogInvalidSections(list_sections) == [i \in 1..Len(list_sections) |-> LogEntry("warning", "Invalid section", <<PyStr(list_sections[i])>>)]

RECURSIVE LastSectionWith(_, _, _)
\* a scan that keeps going after a match, so that the last match wins
LastSectionWith(cfg, option, i) ==
    IF i < 1 THEN None
    ELSE IF HasOption(cfg, Sections(cfg)[i], option) THEN PyStr(Sections(cfg)[i])
    ELSE LastSectionWith(cfg, option, i - 1)
\* a _get_section_of_option that returns the last section holding the option
GetSectionOfOptionLast(cfg, option) == LastSectionWith(cfg, option, Len(Sections(cfg)))

RECURSIVE FirstSectionWith(_, _, _)
\* the loop of _get_section_of_option over the sections from position i on
FirstSectionWith(cfg, option, i) ==
    IF i > Len(Sections(cfg)) THEN None
    ELSE IF HasOption(cfg, Sections(cfg)[i], option) THEN PyStr(Sections(cfg)[i])
    ELSE FirstSectionWith(cfg, option, i + 1)
\* _get_section_of_option(option)
GetSectionOfOption(cfg, option) == FirstSectionWith(cfg, option, 1)

\* search_sections_of(option): on the first section holding the option the
\* method returns the value of result.add(section), which is None
SearchSectionsOf(cfg, option) ==
    IF \E i \in 1..Len(Sections(cfg)) : HasOption(cfg, Sections(cfg)[i], option)
    THEN None
    ELSE PySet({})

\* a _string_to_digit that hands every value to float()
StringToDigitAlwaysFloat(value) ==
    IF FloatParses(value) THEN [result |-> FloatValue(value), logged |-> <<>>]
    ELSE [result |-> None, logged |-> <<LogEntry("error", "Invalid digit value", <<PyStr(value)>>)>>]

\* _string_to_digit(value): the value returned and the records logged
StringToDigit(value) ==
    IF Contains(value, ".")
    THEN IF FloatParses(value)
         THEN [result |-> FloatValue(value), logged |-> <<>>]
         ELSE [result |-> None, logged |-> <<LogEntry("error", "Invalid digit value", <<PyStr(value)>>)>>]
    ELSE IF IntParses(value)
         THEN [result |-> PyInt(IntValue(value)), logged |-> <<>>]
         ELSE [result |-> None, logged |-> <<LogEntry("error", "Invalid digit value", <<PyStr(value)>>)>>]

\* an _is_true that looks the value up without lower()
IsTrueCaseSensitive(value) ==
    IF value \notin DOMAIN BooleanStates
    THEN [result |-> None, logged |-> <<LogEntry("error", "Invalid bool value", <<PyStr(value)>>)>>]
    ELSE [result |-> PyBool(BooleanStates[value]), logged |-> <<>>]

\* _is_true(value): the value returned and the records logged
IsTrue(value) ==
    IF StrLower(value) \notin DOMAIN BooleanStates
    THEN [result |-> None, logged |-> <<LogEntry("error", "Invalid bool value", <<PyStr(value)>>)>>]
    ELSE [result |-> PyBool(BooleanStates[StrLower(value)]), logged |-> <<>>]

RECURSIVE SearchPath(_, _, _)
\* the loop of _get_full_path over the entries of PATH
SearchPath(paths, filename, value) ==
    IF Len(paths) = 0 THEN value
    ELSE LET path == StripChars(Head(paths), {"\""})
             exe_file == PathJoin(path, filename)
         IN  IF IsFile(exe_file) THEN exe_file ELSE SearchPath(Tail(paths), filename, value)
\* _get_full_path(value): os.environ["PATH"] raises KeyError when PATH is unset
GetFullPath(value, env) ==
    LET parent_directory == PathSplit(value).head
        filename == PathSplit(value).tail
    IN  IF parent_directory = <<>> /\ ~IsFile(value)
        THEN IF env.PATH.type = "None"
             THEN [result |-> Raise("KeyError"), logged |-> <<>>]
             ELSE [result |-> PyStr(AbsPath(NormPath(ExpandUser(SearchPath(Split(env.PATH.val, ":"), filename, value))))),
                   logged |-> <<>>]
        ELSE [result |-> PyStr(AbsPath(NormPath(ExpandUser(value)))), logged |-> <<>>]

\* a coercion that tests is_boolean before is_digit
CoerceBooleanFirst(value, env, is_digit, is_boolean, is_path) ==
    IF is_boolean THEN [ran |-> <<"_is_true">>] @@ IsTrue(value)
    ELSE IF is_digit THEN [ran |-> <<"_string_to_digit">>] @@ StringToDigit(value)
    ELSE IF is_path THEN [ran |-> <<"_get_full_path">>] @@ GetFullPath(value, env)
    ELSE [result |-> PyStr(value), logged |-> <<>>, ran |-> <<>>]

\* get_value, lines 133-141: the one coercion applied to a non-empty value;
\* ran names the coercion routine that was called
Coerce(value, env, is_digit, is_boolean, is_path) ==
    IF is_digit THEN [ran |-> <<"_string_to_digit">>] @@ StringToDigit(value)
    ELSE IF is_boolean THEN [ran |-> <<"_is_true">>] @@ IsTrue(value)
    ELSE IF is_path THEN [ran |-> <<"_get_full_path">>] @@ GetFullPath(value, env)
    ELSE [result |-> PyStr(value), logged |-> <<>>, ran |-> <<>>]

\* a get_value without the test for the empty value
GetValueNoEmptyTest(cfg, env, option, section, is_digit, is_boolean, is_path, silent) ==
    LET sec == IF section.type = "None" THEN GetSectionOfOption(cfg, option) ELSE section
    IN  IF ~HasSection(cfg, sec)
        THEN [result |-> None, ran |-> <<>>,
              logged |-> IF ~silent THEN <<LogEntry("error", "Missing section", <<sec>>)>> ELSE <<>>]
        ELSE IF ~HasOption(cfg, sec.val, option)
        THEN [result |-> None, ran |-> <<>>,
              logged |-> IF ~silent THEN <<LogEntry("error", "Missing option in section", <<PyStr(option), sec>>)>> ELSE <<>>]
        ELSE Coerce(ConfigGet(cfg, sec.val, option), env, is_digit, is_boolean, is_path)

\* get_value(option, section, is_digit, is_boolean, is_path, silent): the
\* value returned (or the exception raised), the records logged, and the
\* coercion routine called
GetValue(cfg, env, option, section, is_digit, is_boolean, is_path, silent) ==
    LET sec == IF section.type = "None" THEN GetSectionOfOption(cfg, option) ELSE section
    IN  IF ~HasSection(cfg, sec)
        THEN [result |-> None, ran |-> <<>>,
              logged |-> IF ~silent THEN <<LogEntry("error", "Missing section", <<sec>>)>> ELSE <<>>]
        ELSE IF ~HasOption(cfg, sec.val, option)
        THEN [result |-> None, ran |-> <<>>,
              logged |-> IF ~silent THEN <<LogEntry("error", "Missing option in section", <<PyStr(option), sec>>)>> ELSE <<>>]
        ELSE LET value == ConfigGet(cfg, sec.val, option)
             IN  IF value = <<>>
                 THEN [result |-> None, ran |-> <<>>,
                       logged |-> IF ~silent THEN <<LogEntry("warning", "Empty value in", <<sec, PyStr(option)>>)>> ELSE <<>>]
                 ELSE Coerce(value, env, is_digit, is_boolean, is_path)

(***************************************************************************)
(* The stores the wrapper is constructed over, and the arguments of the    *)
(* calls.                                                                  *)
(***************************************************************************)
DB == <<"d", "b">>
WEB == <<"w", "e", "b">>
Host == <<"h", "o", "s", "t">>
Port == <<"p", "o", "r", "t">>
SectionNames == {DB, WEB}
OptionNames == {Host, Port}
\* raw values of the stores with several sections
StoreValues == {<<>>, <<"7">>}

Alphabet == {"0", "7", "-", ".", "t"}
RECURSIVE Strings(_)
\* the strings over Alphabet of length at most n
Strings(n) == IF n = 0 THEN {<<>>} ELSE Strings(n - 1) \cup {Append(s, c) : s \in Strings(n - 1), c \in Alphabet}
\* the parser strips a value, so no raw value starts or ends with whitespace
Stripped(s) == StripChars(s, Whitespace) = s
\* longer raw values: boolean tokens in several cases, numbers, paths
Tokens == {<<"y", "e", "s">>, <<"Y", "e", "s">>, <<"T", "R", "U", "E">>, <<"o", "n">>, <<"Y">>,
           <<"n", "o">>, <<"F", "a", "l", "s", "e">>, <<"O", "F", "F">>, <<"N">>, <<"f">>,
           <<"o", "k">>, <<"y", "e", "s", "!">>, <<"1">>,
           <<"5", "4", "3", "2">>, <<"-", "1", "2">>, <<"+", "3">>, <<"0", "0", "7">>,
           <<"1", ".", "5">>, <<"-", ".", "5">>, <<"7", ".", "e", "1">>, <<"1", "e", "5">>,
           <<"1", ".", "5", ".", "2">>, <<"1", "2", "a">>, <<"1", " ", "2">>, <<"7", ".", "e">>,
           <<"l", "s">>, <<"~", "/", "x">>, <<"~", "r", "/", "x">>, <<"a", "/", ".", ".", "/", "b">>,
           <<"/", "/", "x">>, <<".", ".", "/", "t">>, <<"/", "b", "/", "t">>, <<"/">>, <<"~">>,
           <<"t", "/">>, <<"/", "w", "/", "x">>, <<"F">>, <<"T">>, <<"7", "F">>}
RawValues == {s \in Strings(MaxLen) : Stripped(s)} \cup Tokens

\* the sequences without repetition over a set of names
RECURSIVE Orders(_)
Orders(S) == {<<>>} \cup UNION {{<<x>> \o o : o \in Orders(S \ {x})} : x \in S}
Range(seq) == {seq[i] : i \in 1..Len(seq)}
\* the option tables of one section
OptionMaps == UNION {[D -> StoreValues] : D \in SUBSET OptionNames}
\* stores of up to two sections in either order, each with any option table
SectionStores == UNION {{[sections |-> o, options |-> f] : f \in [Range(o) -> OptionMaps]} : o \in Orders(SectionNames)}
\* stores of one section with one option, holding any raw value
ValueStores == {[sections |-> <<DB>>, options |-> (DB :> (Port :> v))] : v \in RawValues}
Stores == SectionStores \cup ValueStores

\* option arguments: the stored names, one in another case, one never stored
QueryOptions == OptionNames \cup {<<"P", "o", "r", "t">>, <<"u", "s", "e", "r">>}
\* section name arguments: the stored names and one that differs in case
QueryNames == SectionNames \cup {<<"D", "B">>}
QuerySections == {None} \cup {PyStr(n) : n \in QueryNames}
RECURSIVE Lists(_)
\* the lists of section names of length at most n
Lists(n) == IF n = 0 THEN {<<>>} ELSE Lists(n - 1) \cup {Append(l, x) : l \in Lists(n - 1), x \in QueryNames}

(***************************************************************************)
(* State: the wrapper's store, the process environment, and the last call  *)
(* with what it returned and logged.                                       *)
(***************************************************************************)
VARIABLES config, environ, pc, call, result, logged, ran
vars == <<config, environ, pc, call, result, logged, ran>>

NoCall == [op |-> "none"]

\* the state after __init__ has parsed the source
Init == /\ config \in Stores
        /\ environ \in {[PATH |-> p] : p \in EnvPaths}
        /\ pc = "idle"
        /\ call = NoCall
        /\ result = None
        /\ logged = <<>>
        /\ ran = <<>>

validate_sections == /\ pc = "idle"
                     /\ \E list_sections \in Lists(MaxList) :
                          /\ call' = [op |-> "validate_sections", list_sections |-> list_sections]
                          /\ result' = ValidateSections(config, list_sections)
                     /\ logged' = <<>>
                     /\ ran' = <<>>
                     /\ pc' = "returned"
                     /\ UNCHANGED <<config, environ>>

log_invalid_sections == /\ pc = "idle"
                        /\ \E list_sections \in Lists(MaxList) :
                             /\ call' = [op |-> "log_invalid_sections", list_sections |-> list_sections]
                             /\ logged' = LogInvalidSections(list_sections)
                        /\ result' = None
                        /\ ran' = <<>>
                        /\ pc' = "returned"
                        /\ UNCHANGED <<config, environ>>

\* a get_value that takes the option out of the store as it reads it
get_value_removing ==
    /\ pc = "idle"
    /\ \E option \in QueryOptions, section \in QuerySections, is_digit, is_boolean, is_path, silent \in BOOLEAN :
         LET out == GetValue(config, environ, option, section, is_digit, is_boolean, is_path, silent)
             sec == IF section.type = "None" THEN GetSectionOfOption(config, option) ELSE section
         IN
         /\ call' = [op |-> "get_value", option |-> option, section |-> section, is_digit |-> is_digit, is_boolean |-> is_boolean, is_path |-> is_path, silent |-> silent]
         /\ result' = out.result
         /\ logged' = out.logged
         /\ ran' = out.ran
         /\ config' = IF HasSection(config, sec) /\ HasOption(config, sec.val, option)
                      THEN [config EXCEPT !.options[sec.val] = [o \in (DOMAIN @) \ {OptionXform(option)} |-> @[o]]]
                      ELSE config
    /\ pc' = "returned"
    /\ UNCHANGED environ

get_value == /\ pc = "idle"
             /\ \E option \in QueryOptions, section \in QuerySections, is_digit, is_boolean, is_path, silent \in BOOLEAN :
                  LET out == GetValue(config, environ, option, section, is_digit, is_boolean, is_path, silent) IN
                  /\ call' = [op |-> "get_value", option |-> option, section |-> section, is_digit |-> is_digit, is_boolean |-> is_boolean, is_path |-> is_path, silent |-> silent]
                  /\ result' = out.result
                  /\ logged' = out.logged
                  /\ ran' = out.ran
             /\ pc' = "returned"
             /\ UNCHANGED <<config, environ>>

search_sections_of == /\ pc = "idle"
                      /\ \E option \in QueryOptions :
                           /\ call' = [op |-> "search_sections_of", option |-> option]
                           /\ result' = SearchSectionsOf(config, option)
                      /\ logged' = <<>>
                      /\ ran' = <<>>
                      /\ pc' = "returned"
                      /\ UNCHANGED <<config, environ>>

\* the caller has the result (or the exception) and may call again
Return == /\ pc = "returned"
          /\ pc' = "idle"
          /\ call' = NoCall
          /\ result' = None
          /\ logged' = <<>>
          /\ ran' = <<>>
          /\ UNCHANGED <<config, environ>>

Next == \/ validate_sections
        \/ log_invalid_sections
        \/ get_value
        \/ search_sections_of
        \/ Return

Spec == Init /\ [][Next]_vars

(***************************************************************************)
(* Properties.  The call that was made is described on the store itself:   *)
(* which section and which raw value it reaches.                           *)
(***************************************************************************)
Returned(op) == pc = "returned" /\ call.op = op
\* the section holds the option (option names are stored in lower case)
Holds(name, option) == StrLower(option) \in DOMAIN config.options[name]
\* the positions, in stored order, of the sections holding the option
HolderIndexes(option) == {i \in 1..Len(config.sections) : Holds(config.sections[i], option)}
Min(S) == CHOOSE x \in S : \A y \in S : x <= y
\* the last call is a get_value that reaches an option of the store
HasTarget ==
    /\ Returned("get_value")
    /\ IF call.section.type = "str"
       THEN call.section.val \in Range(config.sections) /\ Holds(call.section.val, call.option)
       ELSE HolderIndexes(call.option) # {}
\* the section that call reaches: the one named, or the first holding the option
Target == IF call.section.type = "str" THEN call.section.val ELSE config.sections[Min(HolderIndexes(call.option))]
\* the raw value that call reaches
Raw == config.options[Target][StrLower(call.option)]
InvalidDigit(v) == <<[level |-> "error", msg |-> "Invalid digit value", args |-> <<PyStr(v)>>]>>
InvalidBool(v) == <<[level |-> "error", msg |-> "Invalid bool value", args |-> <<PyStr(v)>>]>>

\* C1: validate_sections returns None when every name of the list is a
\* section of the store (the empty list included), and otherwise the names of
\* the list that are not sections, in input order, duplicates kept; it never
\* returns an empty list.
C1_ValidateSections ==
    Returned("validate_sections") =>
        LET invalid == SelectSeq(call.list_sections, LAMBDA n : n \notin Range(config.sections))
        IN  /\ (invalid = <<>>) => result = None
            /\ (invalid # <<>>) => result = PyList(invalid)
            /\ result # PyList(<<>>)
\* a list with a valid name between two copies of an invalid one
C1_Witness ==
    /\ Returned("validate_sections")
    /\ call.list_sections = <<WEB, DB, WEB>>
    /\ config.sections = <<DB>>
    /\ result = PyList(<<WEB, WEB>>)

\* C2: search_sections_of(option) returns the set of all section names whose
\* section holds the option, the empty set when none does.
C2_SearchReturnsAllSections ==
    Returned("search_sections_of") =>
        result = PySet({config.sections[i] : i \in HolderIndexes(call.option)})

\* C3: a get_value call with silent=True logs nothing, and a missing section,
\* a missing option, an empty value and a failed digit or boolean coercion
\* give None.
C3_SilentLogsNothing ==
    (Returned("get_value") /\ call.silent) =>
        /\ logged = <<>>
        /\ ~HasTarget => result = None
        /\ (HasTarget /\ Raw = <<>>) => result = None
        /\ (HasTarget /\ Raw # <<>> /\ call.is_digit /\ ~IntParses(Raw) /\ ~FloatParses(Raw)) => result = None
        /\ (HasTarget /\ Raw # <<>> /\ ~call.is_digit /\ call.is_boolean /\ StrLower(Raw) \notin DOMAIN BooleanStates) => result = None

\* C4: no get_value call raises, and path coercion of a non-empty raw value
\* returns a str whether PATH is set or unset.
C4_GetValueNeverRaises ==
    Returned("get_value") =>
        /\ result.type # "raise"
        /\ (HasTarget /\ Raw # <<>> /\ call.is_path /\ ~call.is_digit /\ ~call.is_boolean) => result.type = "str"

\* C5: with section omitted, get_value behaves as with the first section, in
\* stored order, that holds the option: it returns that section's (coerced)
\* value; when no section holds the option it returns None.
C5_OmittedSectionIsFirstHolder ==
    (Returned("get_value") /\ call.section.type = "None") =>
        IF HolderIndexes(call.option) = {}
        THEN result = None
        ELSE LET first == config.sections[Min(HolderIndexes(call.option))]
                 named == GetValue(config, environ, call.option, PyStr(first), call.is_digit, call.is_boolean, call.is_path, call.silent)
                 value == config.options[first][StrLower(call.option)]
             IN  /\ result = named.result
                 /\ logged = named.logged
                 /\ (value # <<>> /\ ~call.is_digit /\ ~call.is_boolean /\ ~call.is_path) => result = PyStr(value)
                 /\ (value = <<>>) => result = None
\* both sections hold the option; the value of the first one is returned
C5_Witness ==
    /\ Returned("get_value")
    /\ call.section.type = "None"
    /\ call.option = Host
    /\ config.sections = <<WEB, DB>>
    /\ Host \in DOMAIN config.options[DB] /\ config.options[DB][Host] = <<>>
    /\ Host \in DOMAIN config.options[WEB] /\ config.options[WEB][Host] = <<"7">>
    /\ ~call.is_digit /\ ~call.is_boolean /\ ~call.is_path
    /\ result = PyStr(<<"7">>)

\* C6: for an option whose raw value is the empty string get_value returns
\* None whatever coercion is selected, runs no coercion routine, logs nothing
\* when silent and exactly one record, a warning, when not silent.
C6_EmptyValueIsAbsent ==
    (HasTarget /\ Raw = <<>>) =>
        /\ result = None
        /\ ran = <<>>
        /\ call.silent => logged = <<>>
        /\ ~call.silent => Len(logged) = 1 /\ logged[1].level = "warning"
\* an empty value asked for with every coercion flag set, not silent
C6_Witness ==
    /\ HasTarget /\ Raw = <<>>
    /\ call.is_digit /\ call.is_boolean /\ call.is_path /\ ~call.silent
    /\ result = None
    /\ Len(logged) = 1 /\ logged[1].level = "warning"

TrueTokens == {<<"y", "e", "s">>, <<"t", "r", "u", "e">>, <<"o", "n">>, <<"y">>, <<"t">>}
FalseTokens == {<<"n", "o">>, <<"f", "a", "l", "s", "e">>, <<"o", "f", "f">>, <<"n">>, <<"f">>}
\* C7: with boolean coercion (and digit coercion, which has priority, not
\* selected) a non-empty raw value whose lower-cased form is a truthy token
\* gives True, a falsy token gives False, and any other value gives None and
\* one error record; False is not None.
C7_BooleanCoercion ==
    (HasTarget /\ Raw # <<>> /\ call.is_boolean /\ ~call.is_digit) =>
        /\ StrLower(Raw) \in TrueTokens => result = PyBool(TRUE) /\ logged = <<>>
        /\ StrLower(Raw) \in FalseTokens => result = PyBool(FALSE) /\ result # None /\ logged = <<>>
        /\ StrLower(Raw) \notin TrueTokens \cup FalseTokens => result = None /\ logged = InvalidBool(Raw)
\* a falsy token in upper case
C7_Witness ==
    /\ HasTarget /\ Raw = <<"O", "F", "F">>
    /\ call.is_boolean /\ ~call.is_digit
    /\ result = PyBool(FALSE)

\* an optional sign followed by digits only
IsIntLiteral(v) == Len(v) > 0 /\ (v[1] \in {"+", "-"} => Len(v) > 1) /\ \A i \in 1..Len(v) : IsDigit(v[i]) \/ (i = 1 /\ v[1] \in {"+", "-"})
RECURSIVE Pow10(_)
Pow10(n) == IF n = 0 THEN 1 ELSE 10 * Pow10(n - 1)
RECURSIVE PlaceSum(_, _)
\* the sum of digit * 10^place over the digits of v from position i on
PlaceSum(v, i) == IF i > Len(v) THEN 0 ELSE (IF IsDigit(v[i]) THEN DigitVal(v[i]) * Pow10(Len(v) - i) ELSE 0) + PlaceSum(v, i + 1)
LiteralValue(v) == (IF v[1] = "-" THEN -1 ELSE 1) * PlaceSum(v, 1)
\* neither int() nor float() reads the value as a number
NotNumeric(v) == ~IntParses(v) /\ ~FloatParses(v) /\ StrLower(Unsigned(v)) \notin {<<"i", "n", "f">>, <<"n", "a", "n">>, <<"i", "n", "f", "i", "n", "i", "t", "y">>}
\* C8: with digit coercion a non-empty raw value without a decimal point
\* that is an integer literal gives the int it writes (0 for zero, not None);
\* a value that is not numeric, with or without a decimal point, gives None
\* and one error record citing the value, and nothing is raised.
C8_DigitCoercion ==
    (HasTarget /\ Raw # <<>> /\ call.is_digit) =>
        /\ (~Contains(Raw, ".") /\ IsIntLiteral(Raw)) => result = PyInt(LiteralValue(Raw)) /\ result # None /\ logged = <<>>
        /\ NotNumeric(Raw) => result = None /\ logged = InvalidDigit(Raw)
        /\ result.type # "raise"
\* zero comes back as the int 0
C8_Witness ==
    /\ HasTarget /\ Raw = <<"0">>
    /\ call.is_digit
    /\ result = PyInt(0)

\* C9: no call changes the parsed store: the sections, their order and every
\* raw value are the same after every step.
C9_StoreNeverChanges == [][config' = config]_vars
\* a get_value that has returned a value of a store with two sections
C9_Witness ==
    /\ HasTarget
    /\ Len(config.sections) = 2
    /\ result = PyStr(<<"7">>)

\* C10: get_value applies exactly one coercion to a non-empty raw value:
\* digit if selected, otherwise boolean if selected, otherwise path if
\* selected, otherwise the raw string unchanged; a failed coercion gives None
\* and no other coercion is tried.
C10_OneCoercionByPriority ==
    (HasTarget /\ Raw # <<>>) =>
        /\ call.is_digit => ran = <<"_string_to_digit">> /\ result = StringToDigit(Raw).result
        /\ (~call.is_digit /\ call.is_boolean) => ran = <<"_is_true">> /\ result = IsTrue(Raw).result
        /\ (~call.is_digit /\ ~call.is_boolean /\ call.is_path) => ran = <<"_get_full_path">> /\ result = GetFullPath(Raw, environ).result
        /\ (~call.is_digit /\ ~call.is_boolean /\ ~call.is_path) => ran = <<>> /\ result = PyStr(Raw)
        /\ (call.is_digit /\ ~IntParses(Raw) /\ ~FloatParses(Raw)) => result = None
        /\ (~call.is_digit /\ call.is_boolean /\ StrLower(Raw) \notin TrueTokens \cup FalseTokens) => result = None
\* the value "t" is a boolean token and no number: asked for as a number and
\* as a boolean and as a path it is None
C10_Witness ==
    /\ HasTarget /\ Raw = <<"t">>
    /\ call.is_digit /\ call.is_boolean /\ call.is_path
    /\ ran = <<"_string_to_digit">>
    /\ result = None

==========================================================================
